---- MODULE Spec2Model ----
(***************************************************************************)
(* A model of openmc/universe.py: UniverseBase, Universe and DAGMCUniverse *)
(* over a heap of Universe, Cell, Material and Lattice objects.            *)
(*                                                                         *)
(* Objects are heap handles (integers); an object's fields are the record  *)
(* stored under its handle.  An OrderedDict is a sequence of <<key,value>> *)
(* pairs in insertion order.  A Python str is a TLA+ string, a point or a  *)
(* translation is a 3-tuple of integers, a rotation matrix a 3-tuple of    *)
(* rows.  None is the string "None".                                       *)
(***************************************************************************)
EXTENDS Integers, Sequences, FiniteSets, TLC

VARIABLES
    universes,   \* handle -> UniverseBase object (Universe or DAGMCUniverse)
    cellobjs,    \* handle -> Cell object
    mats,        \* handle -> Material object
    lattices,    \* handle -> Lattice object
    ids,         \* class name -> [next_id, used_ids] (IDManagerMixin state)
    memo,        \* the memo dict a caller of clone() holds
    elem,        \* the XML element a caller of create_xml_subelement holds
    call,        \* the last call made: [op, self, args], and the number n of
                 \* _determine_paths or clone calls made so far
    ret          \* what the last call returned, or the exception it raised

vars == <<universes, cellobjs, mats, lattices, ids, memo, elem, call, ret>>

None == "None"

(***************************************************************************)
(* Bounds of the model.                                                    *)
(***************************************************************************)
MaxAddCells == 2      \* longest iterable handed to add_cells
MaxRootCells == 2     \* most cells placed in a universe by an initial state
GridMax == 2          \* points are drawn from 0..GridMax on the x axis
NumSlots == 2         \* slots of the lattice built by an initial state
MaxCalls == 2         \* _determine_paths calls made in one behaviour
MaxClones == 2        \* clone calls made in one behaviour
MaxId == 2            \* IDs given to the DAGMC universes of an initial state
MaxElements == 2      \* elements appended to one XML element, and read back

(***************************************************************************)
(* Generic helpers.                                                        *)
(***************************************************************************)
Range(s) == {s[i] : i \in DOMAIN s}

SeqsUpTo(S, n) == UNION {[1..k -> S] : k \in 0..n}

Max(S) == CHOOSE x \in S : \A y \in S : y <= x

\* S with one more binding h |-> v (a newly constructed object)
Alloc(heap, h, v) == [x \in DOMAIN heap \cup {h} |-> IF x = h THEN v ELSE heap[x]]

NewHandle(heap) == IF DOMAIN heap = {} THEN 1 ELSE Max(DOMAIN heap) + 1

(***************************************************************************)
(* collections.OrderedDict                                                 *)
(***************************************************************************)
od_keys(d) == {d[i][1] : i \in DOMAIN d}

od_values(d) == [i \in DOMAIN d |-> d[i][2]]

od_index(d, k) == CHOOSE i \in DOMAIN d : d[i][1] = k

od_get(d, k) == d[od_index(d, k)][2]

\* d[k] = v : a new key goes to the end, an existing key keeps its place
od_setitem(d, k, v) ==
    IF k \in od_keys(d)
    THEN [i \in DOMAIN d |-> IF d[i][1] = k THEN <<k, v>> ELSE d[i]]
    ELSE Append(d, <<k, v>>)

\* d.pop(k, None)
od_pop(d, k) ==
    IF k \in od_keys(d)
    THEN LET j == od_index(d, k)
         IN  [i \in 1..(Len(d) - 1) |-> IF i < j THEN d[i] ELSE d[i + 1]]
    ELSE d

(***************************************************************************)
(* Object constructors.  An optional field is <<>> (None) or <<value>>.    *)
(* A fill is [type, ref, list]: ref is the handle of the filling Material, *)
(* universe or Lattice (0 when there is none), list the distributed-       *)
(* material list, whose None entries are the handle 0.                     *)
(***************************************************************************)
NoObj == 0

Unset == <<>>

Some(v) == <<v>>

MaterialFill(m) == [type |-> "material", ref |-> m, list |-> <<>>]
UniverseFill(u) == [type |-> "universe", ref |-> u, list |-> <<>>]
LatticeFill(l) == [type |-> "lattice", ref |-> l, list |-> <<>>]
DistribFill(ms) == [type |-> "distribmat", ref |-> NoObj, list |-> ms]
VoidFill == [type |-> "void", ref |-> NoObj, list |-> <<>>]

NewCell(id, name, fill, region, translation, rotation) ==
    [id |-> id, name |-> name, fill |-> fill, region |-> region,
     translation |-> translation, rotation |-> rotation,
     num_instances |-> 0, paths |-> <<>>]

NewMaterial(id, name) ==
    [id |-> id, name |-> name, num_instances |-> 0, paths |-> <<>>]

\* UniverseBase.__init__ : no volume, no atoms, an empty OrderedDict of cells
UniverseBase_init(kind, id, name) ==
    [kind |-> kind, id |-> id, name |-> name, volume |-> Unset, atoms |-> Unset,
     cells |-> <<>>, filename |-> <<"str", "">>,
     auto_geom_ids |-> FALSE, auto_mat_ids |-> FALSE]

\* the result of a call: the exception raised (None when it returned) and
\* the value returned
Returned(v) == [exc |-> None, val |-> v]
Raised(e) == [exc |-> e, val |-> <<>>]

(***************************************************************************)
(* Universe.add_cell, add_cells, remove_cell, clear_cells.  Each takes the *)
(* Universe object and the heap of Cell objects and gives the object after *)
(* the call and the exception raised.                                      *)
(***************************************************************************)
IsCell(CH, x) == x \in DOMAIN CH

\* add_cell without the membership test: stores the new object under the ID
add_cell_overwrite(self, cell, CH) ==
    IF ~IsCell(CH, cell)
    THEN [obj |-> self, exc |-> "TypeError"]
    ELSE [obj |-> [self EXCEPT !.cells = od_setitem(@, CH[cell].id, cell)],
          exc |-> None]

add_cell(self, cell, CH) ==
    IF ~IsCell(CH, cell)
    THEN [obj |-> self, exc |-> "TypeError"]
    ELSE LET cell_id == CH[cell].id
         IN  IF cell_id \notin od_keys(self.cells)
             THEN [obj |-> [self EXCEPT !.cells = od_setitem(@, cell_id, cell)],
                   exc |-> None]
             ELSE [obj |-> self, exc |-> None]

RECURSIVE add_cells_loop(_, _, _)
add_cells_loop(self, items, CH) ==
    IF items = <<>>
    THEN [obj |-> self, exc |-> None]
    ELSE LET r == add_cell(self, Head(items), CH)
         IN  IF r.exc # None THEN r ELSE add_cells_loop(r.obj, Tail(items), CH)

\* cells is [iterable, items]: an argument that is no Iterable has no items
add_cells(self, cells, CH) ==
    IF ~cells.iterable
    THEN [obj |-> self, exc |-> "TypeError"]
    ELSE add_cells_loop(self, cells.items, CH)

\* remove_cell as "del self._cells[cell.id]": an absent ID is a KeyError
remove_cell_del(self, cell, CH) ==
    IF ~IsCell(CH, cell)
    THEN [obj |-> self, exc |-> "TypeError"]
    ELSE IF CH[cell].id \notin od_keys(self.cells)
         THEN [obj |-> self, exc |-> "KeyError"]
         ELSE [obj |-> [self EXCEPT !.cells = od_pop(@, CH[cell].id)], exc |-> None]

remove_cell(self, cell, CH) ==
    IF ~IsCell(CH, cell)
    THEN [obj |-> self, exc |-> "TypeError"]
    ELSE [obj |-> [self EXCEPT !.cells = od_pop(@, CH[cell].id)], exc |-> None]

clear_cells(self) == [obj |-> [self EXCEPT !.cells = <<>>], exc |-> None]

(***************************************************************************)
(* Spec: an empty universe and a pool of cells, two of which carry the     *)
(* same ID; any sequence of add_cell, add_cells, remove_cell, clear_cells. *)
(***************************************************************************)
NotACell == 0

CsgUniverses == {u \in DOMAIN universes : universes[u].kind = "csg"}

IdState(used) == [next_id |-> 1, used_ids |-> used]

PoolCells ==
    <<NewCell(1, "a", VoidFill, Unset, Unset, Unset),
      NewCell(2, "b", VoidFill, Unset, Unset, Unset),
      NewCell(3, "c", VoidFill, Unset, Unset, Unset),
      NewCell(1, "a2", VoidFill, Unset, Unset, Unset)>>

Init ==
    /\ universes = <<UniverseBase_init("csg", 1, "")>>
    /\ cellobjs = PoolCells
    /\ mats = <<>>
    /\ lattices = <<>>
    /\ ids = [universe |-> IdState({1}), cell |-> IdState({1, 2, 3}),
              material |-> IdState({}), lattice |-> IdState({})]
    /\ memo = <<>>
    /\ elem = <<>>
    /\ call = [op |-> "init", self |-> NoObj, args |-> <<>>, n |-> 0]
    /\ ret = Returned(<<>>)

Frame == UNCHANGED <<cellobjs, mats, lattices, ids, memo, elem>>

CellArgs == DOMAIN cellobjs \cup {NotACell}

IterableArgs ==
    {[iterable |-> TRUE, items |-> s] : s \in SeqsUpTo(CellArgs, MaxAddCells)}
        \cup {[iterable |-> FALSE, items |-> <<>>]}

Mutate(op, u, args, r) ==
    /\ universes' = [universes EXCEPT ![u] = r.obj]
    /\ call' = [op |-> op, self |-> u, args |-> args, n |-> 0]
    /\ ret' = [exc |-> r.exc, val |-> <<>>]
    /\ Frame

AddCell ==
    \E u \in CsgUniverses, c \in CellArgs :
        Mutate("add_cell", u, <<c>>, add_cell(universes[u], c, cellobjs))

AddCells ==
    \E u \in CsgUniverses, cs \in IterableArgs :
        Mutate("add_cells", u, <<cs>>, add_cells(universes[u], cs, cellobjs))

RemoveCell ==
    \E u \in CsgUniverses, c \in CellArgs :
        Mutate("remove_cell", u, <<c>>, remove_cell(universes[u], c, cellobjs))

ClearCells ==
    \E u \in CsgUniverses :
        Mutate("clear_cells", u, <<>>, clear_cells(universes[u]))

Next == AddCell \/ AddCells \/ RemoveCell \/ ClearCells

Spec == Init /\ [][Next]_vars

(***************************************************************************)
(* Properties of the cells mapping (checked under Spec).                   *)
(***************************************************************************)
NoDuplicateIds(d) == \A i, j \in DOMAIN d : d[i][1] = d[j][1] => i = j

\* the entries of d whose key is not k, in d's order
RECURSIVE EntriesWithout(_, _)
EntriesWithout(d, k) ==
    IF d = <<>> THEN <<>>
    ELSE IF Head(d)[1] = k THEN EntriesWithout(Tail(d), k)
         ELSE <<Head(d)>> \o EntriesWithout(Tail(d), k)

CalledWith(op, u, c) ==
    call'.op = op /\ call'.self = u /\ call'.args = <<c>> /\ IsCell(cellobjs, c)

AddCellStep ==
    \A u \in CsgUniverses, c \in DOMAIN cellobjs :
        CalledWith("add_cell", u, c) =>
            /\ ret'.exc = None
            /\ cellobjs[c].id \in od_keys(universes[u].cells)
                   => universes'[u].cells = universes[u].cells
            /\ cellobjs[c].id \notin od_keys(universes[u].cells)
                   => universes'[u].cells
                          = Append(universes[u].cells, <<cellobjs[c].id, c>>)
            /\ add_cell(universes'[u], c, cellobjs').obj.cells = universes'[u].cells

\* C1: a universe's cells never hold two entries with the same cell ID, and
\* add_cell(C) with C's ID already present leaves cells unchanged (size, order
\* and the stored object), so adding C a second time changes nothing.
C1_UniqueIdsIdempotentAdd ==
    /\ [](\A u \in CsgUniverses :
            /\ NoDuplicateIds(universes[u].cells)
            /\ \A i \in DOMAIN universes[u].cells :
                   universes[u].cells[i][1] = cellobjs[universes[u].cells[i][2]].id)
    /\ [][AddCellStep]_vars

\* add_cell(a2) returned with the ID of a2 still mapped to the other object a
C1_Witness ==
    /\ call.op = "add_cell" /\ ret.exc = None
    /\ call.args = <<4>>
    /\ Len(universes[call.self].cells) = 2
    /\ od_get(universes[call.self].cells, 1) = 1

RemoveCellStep ==
    \A u \in CsgUniverses, c \in DOMAIN cellobjs :
        CalledWith("remove_cell", u, c) =>
            /\ ret'.exc = None
            /\ cellobjs[c].id \notin od_keys(universes[u].cells)
                   => universes'[u].cells = universes[u].cells
            /\ universes'[u].cells = EntriesWithout(universes[u].cells, cellobjs[c].id)
            /\ Len(universes'[u].cells) >= Len(universes[u].cells) - 1

\* C10: remove_cell(C) with no cell of C's ID present raises nothing and leaves
\* cells unchanged; with one present, exactly that entry goes and the others
\* keep their relative order.
C10_RemoveCellFrame == [][RemoveCellStep]_vars

\* remove_cell(b) returned and left the entries of IDs 3 and 1, in that order
C10_Witness ==
    /\ call.op = "remove_cell" /\ ret.exc = None
    /\ call.args = <<2>>
    /\ Len(universes[call.self].cells) = 2
    /\ universes[call.self].cells[1][1] = 3
    /\ universes[call.self].cells[2][1] = 1

(***************************************************************************)
(* Universe.find.  A result is a list of [kind, obj, idx] entries: a       *)
(* Universe, a Cell, or the (lattice, index) pair a Lattice contributes.   *)
(***************************************************************************)
MaxDepth == 6         \* deepest nesting of calls before RecursionError

VecSub(p, t) == [i \in 1..3 |-> p[i] - t[i]]

MatVec(R, p) == [i \in 1..3 |-> R[i][1] * p[1] + R[i][2] * p[2] + R[i][3] * p[3]]

UniverseEntry(u) == [kind |-> "universe", obj |-> u, idx |-> <<>>]
CellEntry(c) == [kind |-> "cell", obj |-> c, idx |-> <<>>]
LatticeEntry(l, idx) == [kind |-> "lattice", obj |-> l, idx |-> idx]

\* Cell.__contains__ : a cell without a region contains every point
cell_contains(cell, p) ==
    LET region == cellobjs[cell].region
    IN  region = Unset
        \/ \A i \in 1..3 : region[1].lo[i] <= p[i] /\ p[i] <= region[1].hi[i]

\* Cell.fill_type
fill_type(cell) == cellobjs[cell].fill.type

\* [self, cell] + <the nested call's list>; an exception of the nested call
\* propagates
prepend(self, cell, r) ==
    IF r.exc # None THEN r
    ELSE Returned(<<UniverseEntry(self), CellEntry(cell)>> \o r.val)

\* the point handed to the filling universe, with the rotation applied first
transform_point_rotate_first(cell, p) ==
    LET c == cellobjs[cell]
        p1 == IF c.rotation # Unset THEN MatVec(c.rotation[1], p) ELSE p
    IN  IF c.translation # Unset THEN VecSub(p1, c.translation[1]) ELSE p1

\* lines 287-290: p -= cell.translation, then p[:] = cell.rotation_matrix.dot(p)
transform_point(cell, p) ==
    LET c == cellobjs[cell]
        p1 == IF c.translation # Unset THEN VecSub(p, c.translation[1]) ELSE p
    IN  IF c.rotation # Unset THEN MatVec(c.rotation[1], p1) ELSE p1

LatticePitch == 2

\* Lattice.find_element: the slot holding p and p relative to the slot's centre
lattice_index(p) == <<p[1] \div LatticePitch, p[2] \div LatticePitch>>

lattice_local(p) ==
    <<(p[1] % LatticePitch) - 1, (p[2] % LatticePitch) - 1, p[3]>>

\* Lattice._natural_indices: (ix, iy), ix fastest
natural_indices(latt) ==
    LET nx == lattices[latt].shape[1]
        ny == lattices[latt].shape[2]
    IN  [k \in 1..(nx * ny) |-> <<(k - 1) % nx, (k - 1) \div nx>>]

\* Lattice.get_universe
get_universe(latt, index) == lattices[latt].universes[index]

RECURSIVE find(_, _, _)

\* Lattice.find: outside every slot (and with no outer universe) the list is empty
lattice_find(latt, p, depth) ==
    LET idx == lattice_index(p)
    IN  IF idx \notin Range(natural_indices(latt))
        THEN Returned(<<>>)
        ELSE LET r == find(get_universe(latt, idx), lattice_local(p), depth)
             IN  IF r.exc # None THEN r
                 ELSE Returned(<<LatticeEntry(latt, idx)>> \o r.val)

\* the search of a universe-filled cell going on in the cell's own universe
find_in_cell_same_universe(self, cell, p, depth) ==
    IF fill_type(cell) \in {"material", "distribmat", "void"}
    THEN Returned(<<UniverseEntry(self), CellEntry(cell)>>)
    ELSE IF fill_type(cell) = "universe"
         THEN prepend(self, cell, find(self, transform_point(cell, p), depth + 1))
         ELSE prepend(self, cell,
                      lattice_find(cellobjs[cell].fill.ref, p, depth + 1))

\* lines 284-293: what find returns once `cell` is known to contain p
find_in_cell(self, cell, p, depth) ==
    IF fill_type(cell) \in {"material", "distribmat", "void"}
    THEN Returned(<<UniverseEntry(self), CellEntry(cell)>>)
    ELSE IF fill_type(cell) = "universe"
         THEN prepend(self, cell,
                      find(cellobjs[cell].fill.ref, transform_point(cell, p), depth + 1))
         ELSE prepend(self, cell,
                      lattice_find(cellobjs[cell].fill.ref, p, depth + 1))

\* the scan with the last containing cell winning
RECURSIVE find_scan_last_wins(_, _, _, _)
find_scan_last_wins(self, cells, p, depth) ==
    IF cells = <<>>
    THEN Returned(<<>>)
    ELSE LET cell == cells[Len(cells)]
         IN  IF cell_contains(cell, p)
             THEN find_in_cell(self, cell, p, depth)
             ELSE find_scan_last_wins(self, SubSeq(cells, 1, Len(cells) - 1), p, depth)

\* the scan going on to later cells when the filling universe found nothing
RECURSIVE find_scan_fall_through(_, _, _, _)
find_scan_fall_through(self, cells, p, depth) ==
    IF cells = <<>>
    THEN Returned(<<>>)
    ELSE LET cell == Head(cells)
             r == find_in_cell(self, cell, p, depth)
         IN  IF cell_contains(cell, p) /\ ~(r.exc = None /\ Len(r.val) = 2
                                            /\ fill_type(cell) = "universe")
             THEN r
             ELSE find_scan_fall_through(self, Tail(cells), p, depth)

\* lines 282-294: the loop over self._cells.values() and the final return []
RECURSIVE find_scan(_, _, _, _)
find_scan(self, cells, p, depth) ==
    IF cells = <<>>
    THEN Returned(<<>>)
    ELSE LET cell == Head(cells)
         IN  IF cell_contains(cell, p)
             THEN find_in_cell(self, cell, p, depth)
             ELSE find_scan(self, Tail(cells), p, depth)

\* a DAGMCUniverse has no find method; Python gives up at its recursion limit
find(self, p, depth) ==
    IF universes[self].kind # "csg" THEN Raised("AttributeError")
    ELSE IF depth > MaxDepth THEN Raised("RecursionError")
    ELSE find_scan(self, od_values(universes[self].cells), p, depth)

(***************************************************************************)
(* The geometries find and _determine_paths are run on.  Universe 1 is the *)
(* root, universe 2 a child filling cells 5, 6 and 7 under different       *)
(* transforms, universe 3 the universe the lattice repeats.  An initial    *)
(* state picks which cells of the pool the root and the child hold, in     *)
(* which order, and which universes the lattice holds.                     *)
(***************************************************************************)
XBox(a, b) == Some([lo |-> <<a, -9, -9>>, hi |-> <<b, 9, 9>>])

PointBox(x, y) == Some([lo |-> <<x, y, -9>>, hi |-> <<x, y, 9>>])

RotZ90 == <<<<0, -1, 0>>, <<1, 0, 0>>, <<0, 0, 1>>>>

GeomCells ==
    <<NewCell(1, "", MaterialFill(1), XBox(0, 1), Unset, Unset),
      NewCell(2, "", MaterialFill(2), XBox(1, 2), Unset, Unset),
      NewCell(3, "", VoidFill, Unset, Unset, Unset),
      NewCell(4, "", DistribFill(<<NoObj, 1>>), XBox(0, 0), Unset, Unset),
      NewCell(5, "", UniverseFill(2), XBox(1, 2), Some(<<1, 0, 0>>), Unset),
      NewCell(6, "", UniverseFill(2), Unset, Some(<<1, 0, 0>>), Some(RotZ90)),
      NewCell(7, "", UniverseFill(2), XBox(0, 2), Unset, Some(RotZ90)),
      NewCell(8, "", LatticeFill(1), Unset, Unset, Unset),
      NewCell(9, "", MaterialFill(1), PointBox(0, 0), Unset, Unset),
      NewCell(10, "", MaterialFill(2), PointBox(-1, 1), Unset, Unset),
      NewCell(11, "", VoidFill, Unset, Unset, Unset),
      NewCell(12, "", MaterialFill(2), Unset, Unset, Unset),
      NewCell(13, "", DistribFill(<<2, NoObj, 1>>), Unset, Unset, Unset)>>

RootPool == 1..8

ChildCellChoices ==
    {<<>>, <<9>>, <<9, 10>>, <<10, 9>>, <<11, 9>>, <<13>>, <<12, 13>>, <<13, 9>>}

PinCellChoices == {<<12>>, <<12, 13>>}

Injective(s) == \A i, j \in DOMAIN s : s[i] = s[j] => i = j

\* the OrderedDict that adding the cells of s in order to an empty universe gives
CellsDict(CH, s) == [i \in DOMAIN s |-> <<CH[s[i]].id, s[i]>>]

WithCells(u, CH, s) == [u EXCEPT !.cells = CellsDict(CH, s)]

LatticeIndices(nx, ny) == {<<ix, iy>> : ix \in 0..(nx - 1), iy \in 0..(ny - 1)}

\* a lattice of shape (NumSlots, 1) holding universe 3 everywhere, or
\* universes 2 and 3 in turn
GeomLattices ==
    {<<[id |-> 1, shape |-> <<NumSlots, 1>>,
        universes |-> [ix \in LatticeIndices(NumSlots, 1) |->
                          IF same \/ ix[1] % 2 = 1 THEN 3 ELSE 2]]>> :
        same \in BOOLEAN}

GeomInit ==
    /\ cellobjs = GeomCells
    /\ mats = <<NewMaterial(1, "m1"), NewMaterial(2, "m2")>>
    /\ lattices \in GeomLattices
    /\ \E root \in {s \in SeqsUpTo(RootPool, MaxRootCells) : Injective(s)},
          child \in ChildCellChoices, pin \in PinCellChoices :
          universes = <<WithCells(UniverseBase_init("csg", 1, "root"), GeomCells, root),
                        WithCells(UniverseBase_init("csg", 2, "child"), GeomCells, child),
                        WithCells(UniverseBase_init("csg", 3, "pin"), GeomCells, pin)>>
    /\ ids = [universe |-> IdState({1, 2, 3}), cell |-> IdState(1..13),
              material |-> IdState({1, 2}), lattice |-> IdState({1})]
    /\ memo = <<>>
    /\ elem = <<>>
    /\ call = [op |-> "init", self |-> NoObj, args |-> <<>>, n |-> 0]
    /\ ret = Returned(<<>>)

PointInputs == {<<x, y, 0>> : x \in 0..GridMax, y \in 0..1}

Find ==
    \E u \in CsgUniverses, p \in PointInputs :
        /\ call' = [op |-> "find", self |-> u, args |-> <<p>>, n |-> 0]
        /\ ret' = find(u, p, 0)
        /\ UNCHANGED <<universes, cellobjs, mats, lattices, ids, memo, elem>>

NextFind == Find

SpecFind == GeomInit /\ [][NextFind]_vars

(***************************************************************************)
(* Properties of find (checked under SpecFind).                            *)
(***************************************************************************)
Min(S) == CHOOSE x \in S : \A y \in S : x <= y

FindCalled == call.op = "find"

FindPoint == call.args[1]

ScannedCells == od_values(universes[call.self].cells)

\* the positions, in insertion order, of the cells that contain the point
Containing == {i \in DOMAIN ScannedCells : cell_contains(ScannedCells[i], FindPoint)}

FirstContaining == ScannedCells[Min(Containing)]

StartsWithFirst ==
    /\ Len(ret.val) >= 2
    /\ ret.val[1] = UniverseEntry(call.self)
    /\ ret.val[2] = CellEntry(FirstContaining)

\* R (p - t): the translation subtracted, the rotation applied to the difference
ChildPoint(cell, p) ==
    LET t == cellobjs[cell].translation
        R == cellobjs[cell].rotation
        moved == IF t = Unset THEN p ELSE <<p[1] - t[1][1], p[2] - t[1][2], p[3] - t[1][3]>>
    IN  IF R = Unset THEN moved ELSE MatVec(R[1], moved)

NoCellContains(u, q) ==
    \A i \in DOMAIN universes[u].cells : ~cell_contains(universes[u].cells[i][2], q)

\* C2: find decides on the first cell, in insertion order, that contains the
\* point; when that cell is filled with a material, a distributed-material
\* list or void the result is exactly [universe, cell], whatever later cells
\* contain the point too.
C2_FirstAddedLeafWins ==
    (/\ FindCalled
     /\ Containing # {}
     /\ fill_type(FirstContaining) \in {"material", "distribmat", "void"})
        => ret = Returned(<<UniverseEntry(call.self), CellEntry(FirstContaining)>>)

\* two overlapping cells contain the point and the earlier one, a leaf that
\* was not added last, is returned
C2_Witness ==
    /\ FindCalled
    /\ Cardinality(Containing) >= 2
    /\ fill_type(FirstContaining) = "distribmat"
    /\ ret = Returned(<<UniverseEntry(call.self), CellEntry(FirstContaining)>>)

C4_TranslateThenRotate ==
    (FindCalled /\ Containing # {} /\ fill_type(FirstContaining) = "universe") =>
        LET cell == FirstContaining
            V == cellobjs[cell].fill.ref
            inner == find(V, ChildPoint(cell, FindPoint), 1)
        IN  /\ inner.exc = None
            /\ ret = Returned(<<UniverseEntry(call.self), CellEntry(cell)>> \o inner.val)
            /\ (/\ cellobjs[cell].translation = Some(<<1, 0, 0>>)
                /\ cellobjs[cell].rotation = Unset
                /\ FindPoint = <<1, 0, 0>>)
                   => ret.val = <<UniverseEntry(call.self), CellEntry(cell)>>
                                    \o find(V, <<0, 0, 0>>, 1).val

\* cell 6 (translation (1,0,0), rotation by 90 degrees) contains (1,0,0) and
\* the child's cell at the origin is found, not the one at (-1,1,0)
C4_Witness ==
    /\ FindCalled
    /\ FindPoint = <<1, 0, 0>>
    /\ Containing # {}
    /\ FirstContaining = 6
    /\ Len(universes[2].cells) = 2
    /\ ret = Returned(<<UniverseEntry(call.self), CellEntry(6),
                        UniverseEntry(2), CellEntry(9)>>)

(***************************************************************************)
(* Universe._determine_paths.  The traversal mutates the Cell and Material *)
(* objects it reaches: st is [cells, mats, exc], the two heaps so far and  *)
(* the exception that ended the traversal (None while it is running).      *)
(***************************************************************************)
\* ",".join(str(x) for x in index)
RECURSIVE join_index(_)
join_index(index) ==
    IF Len(index) = 0 THEN ""
    ELSE IF Len(index) = 1 THEN ToString(index[1])
         ELSE ToString(index[1]) \o "," \o join_index(Tail(index))

\* line 585
univ_path(self, path) == path \o "u" \o ToString(universes[self].id)

\* line 588
cell_path(upath, cell, st) == upath \o "->c" \o ToString(st.cells[cell].id)

\* the lattice prefix without the index of the slot
latt_path_no_index(cpath, latt, index) ==
    cpath \o "->l" \o ToString(lattices[latt].id) \o "->"

\* lines 602-603
latt_path(cpath, latt, index) ==
    cpath \o "->l" \o ToString(lattices[latt].id) \o "(" \o join_index(index) \o ")->"

\* the first entry of a distributed-material list, whatever the count
fill_material_first(cell, st) ==
    LET fill == st.cells[cell].fill
    IN  IF fill.type = "material" THEN [exc |-> None, mat |-> fill.ref]
        ELSE IF fill.type = "distribmat"
             THEN IF Len(fill.list) = 0
                  THEN [exc |-> "IndexError", mat |-> NoObj]
                  ELSE [exc |-> None, mat |-> fill.list[1]]
             ELSE [exc |-> None, mat |-> NoObj]

\* lines 608-613: the material of a leaf cell; fill[cell._num_instances] is
\* an IndexError past the end of the list
fill_material(cell, st) ==
    LET fill == st.cells[cell].fill
        k == st.cells[cell].num_instances
    IN  IF fill.type = "material" THEN [exc |-> None, mat |-> fill.ref]
        ELSE IF fill.type = "distribmat"
             THEN IF k >= Len(fill.list)
                  THEN [exc |-> "IndexError", mat |-> NoObj]
                  ELSE [exc |-> None, mat |-> fill.list[k + 1]]
             ELSE [exc |-> None, mat |-> NoObj]

\* the material's path recorded in the instances-only mode too
count_material_always_records(mat, cpath, instances_only, st) ==
    IF mat = NoObj THEN st
    ELSE [st EXCEPT
            !.mats[mat].num_instances = @ + 1,
            !.mats[mat].paths = Append(@, cpath \o "->m" \o ToString(st.mats[mat].id))]

\* the cell's path recorded for the material
count_material_cell_path(mat, cpath, instances_only, st) ==
    IF mat = NoObj THEN st
    ELSE [st EXCEPT
            !.mats[mat].num_instances = @ + 1,
            !.mats[mat].paths = IF instances_only THEN @ ELSE Append(@, cpath)]

\* lines 615-618
count_material(mat, cpath, instances_only, st) ==
    IF mat = NoObj THEN st
    ELSE [st EXCEPT
            !.mats[mat].num_instances = @ + 1,
            !.mats[mat].paths =
                IF instances_only THEN @
                ELSE Append(@, cpath \o "->m" \o ToString(st.mats[mat].id))]

\* a cell counted once per object: only its first occurrence is recorded
count_cell_once(cell, cpath, instances_only, st) ==
    IF st.cells[cell].num_instances > 0 THEN st
    ELSE [st EXCEPT
            !.cells[cell].num_instances = @ + 1,
            !.cells[cell].paths = IF instances_only THEN @ ELSE Append(@, cpath)]

\* lines 620-623
count_cell(cell, cpath, instances_only, st) ==
    [st EXCEPT
        !.cells[cell].num_instances = @ + 1,
        !.cells[cell].paths = IF instances_only THEN @ ELSE Append(@, cpath)]

RECURSIVE determine_paths(_, _, _, _, _)

\* lines 601-605: the loop over latt._natural_indices
RECURSIVE determine_paths_lattice(_, _, _, _, _, _)
determine_paths_lattice(latt, indices, cpath, instances_only, st, depth) ==
    IF indices = <<>> \/ st.exc # None
    THEN st
    ELSE determine_paths_lattice(
             latt, Tail(indices), cpath, instances_only,
             determine_paths(get_universe(latt, Head(indices)),
                             latt_path(cpath, latt, Head(indices)),
                             instances_only, st, depth + 1),
             depth)

\* lines 588-623: one pass of the loop body
determine_paths_cell(cell, upath, instances_only, st, depth) ==
    LET cpath == cell_path(upath, cell, st)
        fill == st.cells[cell].fill
        after ==
            IF fill.type = "universe"
            THEN determine_paths(fill.ref, cpath \o "->", instances_only, st, depth + 1)
            ELSE IF fill.type = "lattice"
                 THEN determine_paths_lattice(fill.ref, natural_indices(fill.ref),
                                              cpath, instances_only, st, depth)
                 ELSE LET m == fill_material(cell, st)
                      IN  IF m.exc # None THEN [st EXCEPT !.exc = m.exc]
                          ELSE count_material(m.mat, cpath, instances_only, st)
    IN  IF after.exc # None THEN after
        ELSE count_cell(cell, cpath, instances_only, after)

\* line 587: the loop over self.cells.values()
RECURSIVE determine_paths_cells(_, _, _, _, _)
determine_paths_cells(cells, upath, instances_only, st, depth) ==
    IF cells = <<>> \/ st.exc # None
    THEN st
    ELSE determine_paths_cells(
             Tail(cells), upath, instances_only,
             determine_paths_cell(Head(cells), upath, instances_only, st, depth),
             depth)

\* the counters and path lists cleared at the start of the outermost call
determine_paths_resetting(self, path, instances_only, st, depth) ==
    LET fresh == IF depth > 0 THEN st
                 ELSE [st EXCEPT
                          !.cells = [c \in DOMAIN st.cells |->
                                        [st.cells[c] EXCEPT !.num_instances = 0,
                                                            !.paths = <<>>]],
                          !.mats = [m \in DOMAIN st.mats |->
                                       [st.mats[m] EXCEPT !.num_instances = 0,
                                                          !.paths = <<>>]]]
    IN  IF universes[self].kind # "csg" THEN [st EXCEPT !.exc = "AttributeError"]
        ELSE IF depth > MaxDepth THEN [st EXCEPT !.exc = "RecursionError"]
        ELSE determine_paths_cells(od_values(universes[self].cells),
                                   univ_path(self, path), instances_only, fresh, depth)

\* a DAGMCUniverse has no _determine_paths method
determine_paths(self, path, instances_only, st, depth) ==
    IF universes[self].kind # "csg" THEN [st EXCEPT !.exc = "AttributeError"]
    ELSE IF depth > MaxDepth THEN [st EXCEPT !.exc = "RecursionError"]
    ELSE determine_paths_cells(od_values(universes[self].cells),
                               univ_path(self, path), instances_only, st, depth)

RootUniverse == 1

DeterminePaths ==
    \E instances_only \in BOOLEAN :
        /\ call.n < MaxCalls
        /\ LET st == determine_paths(RootUniverse, "", instances_only,
                                     [cells |-> cellobjs, mats |-> mats, exc |-> None], 0)
           IN  /\ cellobjs' = st.cells
               /\ mats' = st.mats
               /\ ret' = [exc |-> st.exc, val |-> <<>>]
        /\ call' = [op |-> "_determine_paths", self |-> RootUniverse,
                    args |-> <<"", instances_only>>, n |-> call.n + 1]
        /\ UNCHANGED <<universes, lattices, ids, memo, elem>>

NextPaths == DeterminePaths

SpecPaths == GeomInit /\ [][NextPaths]_vars

(***************************************************************************)
(* Properties of _determine_paths (checked under SpecPaths).               *)
(***************************************************************************)
\* the number of traversal paths that lead from universe u to cell c
RECURSIVE Occurrences(_, _)

RECURSIVE OccurrencesInSlots(_, _, _)
OccurrencesInSlots(latt, indices, c) ==
    IF indices = <<>> THEN 0
    ELSE Occurrences(get_universe(latt, Head(indices)), c)
             + OccurrencesInSlots(latt, Tail(indices), c)

RECURSIVE OccurrencesInCells(_, _)
OccurrencesInCells(cells, c) ==
    IF cells = <<>> THEN 0
    ELSE LET d == Head(cells)
             fill == cellobjs[d].fill
         IN  (IF d = c THEN 1 ELSE 0)
             + (IF fill.type = "universe" THEN Occurrences(fill.ref, c)
                ELSE IF fill.type = "lattice"
                     THEN OccurrencesInSlots(fill.ref, natural_indices(fill.ref), c)
                     ELSE 0)
             + OccurrencesInCells(Tail(cells), c)

Occurrences(u, c) == OccurrencesInCells(od_values(universes[u].cells), c)

\* how many occurrences of cell c resolve to material m
ResolvedTo(c, m) ==
    LET fill == cellobjs[c].fill
        occ == Occurrences(RootUniverse, c)
    IN  IF fill.type = "material" THEN (IF fill.ref = m THEN occ ELSE 0)
        ELSE IF fill.type = "distribmat"
             THEN Cardinality({k \in 1..occ : k <= Len(fill.list) /\ fill.list[k] = m})
             ELSE 0

\* the occurrences of material m under the root: those of cells 1..n
RECURSIVE MaterialOccurrences(_, _)
MaterialOccurrences(m, n) ==
    IF n = 0 THEN 0 ELSE ResolvedTo(n, m) + MaterialOccurrences(m, n - 1)

FirstPathsCall == call.op = "_determine_paths" /\ call.n = 1

InstancesOnly == call.args[2]

\* C5: one _determine_paths from fresh counters leaves on every Cell one
\* increment and one path per traversal path that reaches it, and on every
\* Material one per occurrence of a leaf cell resolving to it; a universe
\* shared by several parents is walked once per occurrence.
C5_OneIncrementPerOccurrence ==
    (FirstPathsCall /\ ret.exc = None) =>
        /\ \A c \in DOMAIN cellobjs :
            /\ cellobjs[c].num_instances = Occurrences(RootUniverse, c)
            /\ Len(cellobjs[c].paths)
                   = (IF InstancesOnly THEN 0 ELSE Occurrences(RootUniverse, c))
            /\ Injective(cellobjs[c].paths)
        /\ \A m \in DOMAIN mats :
            /\ mats[m].num_instances = MaterialOccurrences(m, Len(cellobjs))
            /\ Len(mats[m].paths) = (IF InstancesOnly THEN 0 ELSE mats[m].num_instances)
            /\ Injective(mats[m].paths)

\* cell 9 of the child universe, which fills two cells of the root, was
\* reached twice and its material once per occurrence
C5_Witness ==
    /\ FirstPathsCall /\ ret.exc = None /\ ~InstancesOnly
    /\ Len(universes[RootUniverse].cells) = 2
    /\ cellobjs[9].num_instances = 2
    /\ cellobjs[9].paths = <<"u1->c5->u2->c9", "u1->c6->u2->c9">>
    /\ mats[1].paths = <<"u1->c5->u2->c9->m1", "u1->c6->u2->c9->m1">>

LatticeCell == 8

PinCell == 12

\* the root holds the lattice cell alone, every slot of the lattice holds
\* universe 3, and universe 3 holds the one material-filled cell
UniformLatticeCase ==
    /\ od_values(universes[RootUniverse].cells) = <<LatticeCell>>
    /\ \A idx \in Range(natural_indices(1)) : get_universe(1, idx) = 3
    /\ od_values(universes[3].cells) = <<PinCell>>

ExpectedLatticePath(k) ==
    "u" \o ToString(universes[RootUniverse].id)
        \o "->c" \o ToString(cellobjs[LatticeCell].id)
        \o "->l" \o ToString(lattices[1].id)
        \o "(" \o ToString(natural_indices(1)[k][1])
        \o "," \o ToString(natural_indices(1)[k][2]) \o ")"
        \o "->u" \o ToString(universes[3].id)
        \o "->c" \o ToString(cellobjs[PinCell].id)

\* C6: with the same universe W in all N slots of the lattice that fills the
\* root's single cell, the material-filled cell M of W ends with
\* num_instances = N and N distinct paths
\* u<root>->c<cell>->l<lattice>(<index>)->u<W>->c<M>, in natural-index order.
C6_LatticeInstances ==
    (FirstPathsCall /\ UniformLatticeCase) =>
        LET N == Len(natural_indices(1))
        IN  /\ ret.exc = None
            /\ cellobjs[PinCell].num_instances = N
            /\ mats[cellobjs[PinCell].fill.ref].num_instances = N
            /\ ~InstancesOnly =>
                /\ cellobjs[PinCell].paths = [k \in 1..N |-> ExpectedLatticePath(k)]
                /\ Injective(cellobjs[PinCell].paths)

C6_Witness ==
    /\ FirstPathsCall /\ UniformLatticeCase /\ ~InstancesOnly
    /\ cellobjs[PinCell].num_instances >= 2
    /\ cellobjs[PinCell].paths[1] = "u1->c8->l1(0,0)->u3->c12"
    /\ cellobjs[PinCell].paths[2] = "u1->c8->l1(1,0)->u3->c12"

DistribCells == {c \in DOMAIN cellobjs : cellobjs[c].fill.type = "distribmat"}

\* C7: the k-th depth-first occurrence (from 0) of a cell with a distributed-
\* material list takes the material at list position k: that material is
\* counted and given the path of that occurrence.
C7_DistribmatByOccurrence ==
    FirstPathsCall =>
        /\ \A d \in DistribCells :
            /\ cellobjs[d].num_instances <= Len(cellobjs[d].fill.list)
            /\ ~InstancesOnly =>
                \A j \in 1..cellobjs[d].num_instances :
                    LET m == cellobjs[d].fill.list[j]
                    IN  m # NoObj =>
                            \E i \in DOMAIN mats[m].paths :
                                mats[m].paths[i]
                                    = cellobjs[d].paths[j] \o "->m" \o ToString(mats[m].id)
        /\ ret.exc = None =>
               \A m \in DOMAIN mats :
                   mats[m].num_instances = MaterialOccurrences(m, Len(cellobjs))

\* cell 13 occurred three times: positions 0 and 2 of its list were counted
\* with the paths of the first and the third occurrence, position 1 is None
C7_Witness ==
    /\ FirstPathsCall /\ ret.exc = None /\ ~InstancesOnly
    /\ cellobjs[13].num_instances = 3
    /\ \E i \in DOMAIN mats[2].paths :
           mats[2].paths[i] = cellobjs[13].paths[1] \o "->m2"
    /\ \E i \in DOMAIN mats[1].paths :
           mats[1].paths[i] = cellobjs[13].paths[3] \o "->m1"
    /\ mats[1].num_instances = 1

(***************************************************************************)
(* DAGMCUniverse: __init__, create_xml_subelement, from_xml_element.       *)
(* A filename is <<type, text>>, type "str" or "Path".  An XML element is  *)
(* the function from the names of the attributes set on it to their        *)
(* values; xml_element is the list of the children appended to it.         *)
(***************************************************************************)
\* lines 695-705
DAGMCUniverse_init(filename, universe_id, name, auto_geom_ids, auto_mat_ids) ==
    [UniverseBase_init("dagmc", universe_id, name) EXCEPT
        !.filename = filename,
        !.auto_geom_ids = auto_geom_ids,
        !.auto_mat_ids = auto_mat_ids]

\* str(x) of an int and int(s) of its decimal text
str_int(n) == ToString(n)

int_str(s) == CHOOSE n \in 0..99 : ToString(n) = s

\* str(x) of a str or a Path
str_filename(filename) == filename[2]

\* ET.Element.set
element_set(e, name, value) ==
    [a \in DOMAIN e \cup {name} |-> IF a = name THEN value ELSE e[a]]

\* ET.Element.get and _xml.get_text: <<>> (None) for an attribute not set
element_get(e, name) == IF name \in DOMAIN e THEN Some(e[name]) ELSE Unset

\* lines 821-828: the attributes of the <dagmc_universe> element
dagmc_element(self) ==
    LET e0 == element_set(<<>>, "id", str_int(self.id))
        e1 == IF self.auto_geom_ids THEN element_set(e0, "auto_geom_ids", "true") ELSE e0
        e2 == IF self.auto_mat_ids THEN element_set(e1, "auto_mat_ids", "true") ELSE e1
    IN  element_set(e2, "filename", str_filename(self.filename))

\* lines 813-829; memo_arg is <<>> for memo=None, <<the set>> otherwise.
\* Gives the children of xml_element and the memo set after the call.
create_xml_subelement(self, xml_element, memo_arg) ==
    IF memo_arg # Unset /\ memo_arg[1] # {} /\ self \in memo_arg[1]
    THEN [children |-> xml_element, memo |-> memo_arg]
    ELSE [children |-> Append(xml_element, dagmc_element(universes[self])),
          memo |-> IF memo_arg # Unset THEN Some(memo_arg[1] \cup {self}) ELSE memo_arg]

\* lines 943-969: the DAGMCUniverse read from a <dagmc_universe> element
from_xml_element(e) ==
    LET id == int_str(element_get(e, "id")[1])
        fname == <<"str", element_get(e, "filename")[1]>>
        out == DAGMCUniverse_init(fname, id, "", FALSE, FALSE)
        name == element_get(e, "name")
        named == IF name # Unset THEN [out EXCEPT !.name = name[1]] ELSE out
    IN  [named EXCEPT
            !.auto_geom_ids = (element_get(e, "auto_geom_ids") \notin {Unset, Some("")}),
            !.auto_mat_ids = (element_get(e, "auto_mat_ids") \notin {Unset, Some("")})]

DagmcUniverses == {u \in DOMAIN universes : universes[u].kind = "dagmc"}

Filenames == {<<"str", "dagmc.h5m">>, <<"Path", "dagmc.h5m">>}

UniverseNames == {"", "mesh"}

XmlInit ==
    /\ \E id \in 1..MaxId, name \in UniverseNames, filename \in Filenames,
          auto_geom_ids \in BOOLEAN, auto_mat_ids \in BOOLEAN :
          /\ universes = <<DAGMCUniverse_init(filename, id, name,
                                              auto_geom_ids, auto_mat_ids)>>
          /\ ids = [universe |-> IdState({id}), cell |-> IdState({}),
                    material |-> IdState({}), lattice |-> IdState({})]
    /\ cellobjs = <<>>
    /\ mats = <<>>
    /\ lattices = <<>>
    /\ memo = {}
    /\ elem = <<>>
    /\ call = [op |-> "init", self |-> NoObj, args |-> <<>>, n |-> 0]
    /\ ret = Returned(<<>>)

CreateXmlSubelement ==
    \E u \in DagmcUniverses, with_memo \in BOOLEAN :
        /\ Len(elem) < MaxElements
        /\ LET r == create_xml_subelement(u, elem, IF with_memo THEN Some(memo) ELSE Unset)
           IN  /\ elem' = r.children
               /\ memo' = IF with_memo THEN r.memo[1] ELSE memo
        /\ call' = [op |-> "create_xml_subelement", self |-> u,
                    args |-> <<with_memo>>, n |-> 0]
        /\ ret' = Returned(<<>>)
        /\ UNCHANGED <<universes, cellobjs, mats, lattices, ids>>

FromXmlElement ==
    \E i \in DOMAIN elem :
        /\ Len(universes) <= MaxElements
        /\ LET out == from_xml_element(elem[i])
               h == NewHandle(universes)
           IN  /\ universes' = Alloc(universes, h, out)
               /\ ids' = [ids EXCEPT !.universe.used_ids = @ \cup {out.id}]
               /\ ret' = Returned(<<h>>)
        /\ call' = [op |-> "from_xml_element", self |-> NoObj, args |-> <<i>>, n |-> 0]
        /\ UNCHANGED <<cellobjs, mats, lattices, memo, elem>>

NextXml == CreateXmlSubelement \/ FromXmlElement

SpecXml == XmlInit /\ [][NextXml]_vars

\* the universe read back from the element the step appended
RoundTripped == from_xml_element(elem'[Len(elem')])

Serialized == call'.op = "create_xml_subelement" /\ Len(elem') = Len(elem) + 1

\* C9: writing a DAGMCUniverse with create_xml_subelement and reading the
\* element back with from_xml_element reproduces id, name, filename,
\* auto_geom_ids and auto_mat_ids, for every flag combination and every name.
C9_RoundTrip ==
    [][Serialized =>
          /\ RoundTripped.id = universes[call'.self].id
          /\ RoundTripped.name = universes[call'.self].name
          /\ RoundTripped.filename = universes[call'.self].filename
          /\ RoundTripped.auto_geom_ids = universes[call'.self].auto_geom_ids
          /\ RoundTripped.auto_mat_ids = universes[call'.self].auto_mat_ids]_vars

(***************************************************************************)
(* UniverseBase.clone and _partial_deepcopy, with the clone methods of     *)
(* Cell, Material and Lattice it reaches.  st is [universes, cells, mats,  *)
(* lattices, ids, memo, exc]: the heaps, the ID registries and the memo    *)
(* dict so far, and the exception that ended the call.  memo is a dict     *)
(* from <<class, handle>> to the handle of the clone.                      *)
(***************************************************************************)
UniverseKey(u) == <<"universe", u>>
CellKey(c) == <<"cell", c>>
MaterialKey(m) == <<"material", m>>
LatticeKey(l) == <<"lattice", l>>

\* IDManagerMixin: the ID given to an object constructed without one
auto_id(registry) ==
    CHOOSE n \in registry.next_id..(registry.next_id + Cardinality(registry.used_ids)) :
        /\ n \notin registry.used_ids
        /\ \A k \in registry.next_id..(n - 1) : k \in registry.used_ids

register_id(registry, n) == [next_id |-> n, used_ids |-> registry.used_ids \cup {n}]

\* Universe._partial_deepcopy (lines 625-632) and DAGMCUniverse._partial_deepcopy
\* (lines 971-980): the object built for self, given the ID id
partial_deepcopy(self, id) ==
    IF self.kind = "csg"
    THEN [UniverseBase_init("csg", id, self.name) EXCEPT !.volume = self.volume]
    ELSE [DAGMCUniverse_init(self.filename, id, self.name,
                             self.auto_geom_ids, self.auto_mat_ids)
             EXCEPT !.volume = self.volume]

\* Material.clone
clone_material(m, st) ==
    IF MaterialKey(m) \in od_keys(st.memo) THEN st
    ELSE LET id == auto_id(st.ids.material)
             h == NewHandle(st.mats)
         IN  [st EXCEPT
                 !.mats = Alloc(@, h, [st.mats[m] EXCEPT !.id = id, !.paths = <<>>]),
                 !.ids.material = register_id(@, id),
                 !.memo = od_setitem(@, MaterialKey(m), h)]

RECURSIVE clone_materials(_, _)
clone_materials(ms, st) ==
    IF ms = <<>> THEN st
    ELSE clone_materials(Tail(ms),
                         IF Head(ms) = NoObj THEN st ELSE clone_material(Head(ms), st))

RECURSIVE clone(_, _, _, _, _)

\* Lattice.clone: the universes of the slots are cloned through the memo
RECURSIVE clone_slots(_, _, _, _, _, _)
clone_slots(latt, indices, clone_mats, clone_regions, st, depth) ==
    IF indices = <<>> \/ st.exc # None THEN st
    ELSE clone_slots(latt, Tail(indices), clone_mats, clone_regions,
                     clone(st.lattices[latt].universes[Head(indices)],
                           clone_mats, clone_regions, st, depth + 1),
                     depth)

clone_lattice(latt, clone_mats, clone_regions, st, depth) ==
    IF LatticeKey(latt) \in od_keys(st.memo) THEN st
    ELSE LET id == auto_id(st.ids.lattice)
             h == NewHandle(st.lattices)
             st1 == [st EXCEPT !.lattices = Alloc(@, h, [st.lattices[latt] EXCEPT !.id = id]),
                               !.ids.lattice = register_id(@, id)]
             st2 == clone_slots(latt, natural_indices(latt), clone_mats, clone_regions,
                                st1, depth)
         IN  IF st2.exc # None THEN st2
             ELSE [st2 EXCEPT
                      !.lattices[h].universes =
                          [idx \in DOMAIN st.lattices[latt].universes |->
                              od_get(st2.memo, UniverseKey(st.lattices[latt].universes[idx]))],
                      !.memo = od_setitem(@, LatticeKey(latt), h)]

\* the fill of the clone of a cell, once everything the fill holds is cloned
cloned_fill(fill, clone_mats, st) ==
    IF fill.type = "material"
    THEN IF clone_mats THEN MaterialFill(od_get(st.memo, MaterialKey(fill.ref))) ELSE fill
    ELSE IF fill.type = "distribmat"
         THEN IF clone_mats
              THEN DistribFill([i \in DOMAIN fill.list |->
                                   IF fill.list[i] = NoObj THEN NoObj
                                   ELSE od_get(st.memo, MaterialKey(fill.list[i]))])
              ELSE fill
         ELSE IF fill.type = "universe"
              THEN UniverseFill(od_get(st.memo, UniverseKey(fill.ref)))
              ELSE IF fill.type = "lattice"
                   THEN LatticeFill(od_get(st.memo, LatticeKey(fill.ref)))
                   ELSE fill

\* Cell.clone
clone_cell(cell, clone_mats, clone_regions, st, depth) ==
    IF CellKey(cell) \in od_keys(st.memo) THEN st
    ELSE LET src == st.cells[cell]
             id == auto_id(st.ids.cell)
             h == NewHandle(st.cells)
             st1 == [st EXCEPT
                        !.cells = Alloc(@, h, NewCell(id, src.name, VoidFill, src.region,
                                                      src.translation, src.rotation)),
                        !.ids.cell = register_id(@, id)]
             st2 == IF src.fill.type = "material"
                    THEN IF clone_mats THEN clone_material(src.fill.ref, st1) ELSE st1
                    ELSE IF src.fill.type = "distribmat"
                         THEN IF clone_mats THEN clone_materials(src.fill.list, st1) ELSE st1
                         ELSE IF src.fill.type = "universe"
                              THEN clone(src.fill.ref, clone_mats, clone_regions, st1, depth + 1)
                              ELSE IF src.fill.type = "lattice"
                                   THEN clone_lattice(src.fill.ref, clone_mats, clone_regions,
                                                      st1, depth + 1)
                                   ELSE st1
         IN  IF st2.exc # None THEN st2
             ELSE [st2 EXCEPT
                      !.cells[h].fill = cloned_fill(src.fill, clone_mats, st2),
                      !.memo = od_setitem(@, CellKey(cell), h)]

\* lines 169-171: clone.add_cell(cell.clone(clone_materials, clone_regions, memo))
RECURSIVE clone_cells(_, _, _, _, _, _)
clone_cells(new, cells, clone_mats, clone_regions, st, depth) ==
    IF cells = <<>> \/ st.exc # None THEN st
    ELSE LET st1 == clone_cell(Head(cells), clone_mats, clone_regions, st, depth)
         IN  IF st1.exc # None THEN st1
             ELSE clone_cells(
                      new, Tail(cells), clone_mats, clone_regions,
                      [st1 EXCEPT !.universes[new] =
                          add_cell(@, od_get(st1.memo, CellKey(Head(cells))), st1.cells).obj],
                      depth)

\* a universe never found in memo
never_memoized(self, st) == FALSE

\* line 164: self in memo
memoized(self, st) == UniverseKey(self) \in od_keys(st.memo)

\* lines 164-176; the caller reads the clone as memo[self]
clone(self, clone_mats, clone_regions, st, depth) ==
    IF depth > MaxDepth THEN [st EXCEPT !.exc = "RecursionError"]
    ELSE IF memoized(self, st) THEN st
    ELSE LET id == auto_id(st.ids.universe)
             h == NewHandle(st.universes)
             st1 == [st EXCEPT
                        !.universes = Alloc(@, h, partial_deepcopy(st.universes[self], id)),
                        !.ids.universe = register_id(@, id)]
             st2 == clone_cells(h, od_values(st.universes[self].cells),
                                clone_mats, clone_regions, st1, depth)
         IN  IF st2.exc # None THEN st2
             ELSE [st2 EXCEPT !.memo = od_setitem(@, UniverseKey(self), h)]

CloneRootChoices == {<<5, 6>>, <<6, 1, 5>>, <<8, 5>>, <<4, 7>>, <<3>>}

CloneChildChoices == {<<>>, <<9>>, <<13, 9>>}

CloneInit ==
    /\ cellobjs = GeomCells
    /\ mats = <<NewMaterial(1, "m1"), NewMaterial(2, "m2")>>
    /\ lattices \in GeomLattices
    /\ \E root \in CloneRootChoices, child \in CloneChildChoices :
          universes = <<WithCells(UniverseBase_init("csg", 1, "root"), GeomCells, root),
                        WithCells(UniverseBase_init("csg", 2, "child"), GeomCells, child),
                        WithCells(UniverseBase_init("csg", 3, "pin"), GeomCells, <<12>>)>>
    /\ ids = [universe |-> IdState({1, 2, 3}), cell |-> IdState(1..13),
              material |-> IdState({1, 2}), lattice |-> IdState({1})]
    /\ memo = <<>>
    /\ elem = <<>>
    /\ call = [op |-> "init", self |-> NoObj, args |-> <<>>, n |-> 0]
    /\ ret = Returned(<<>>)

\* clone(clone_materials, clone_regions, memo) on the root or the child, with
\* the caller's memo dict or with memo=None
Clone ==
    \E u \in {1, 2}, clone_mats \in BOOLEAN, clone_regions \in BOOLEAN,
       with_memo \in BOOLEAN :
        /\ call.n < MaxClones
        /\ LET st == clone(u, clone_mats, clone_regions,
                           [universes |-> universes, cells |-> cellobjs, mats |-> mats,
                            lattices |-> lattices, ids |-> ids,
                            memo |-> IF with_memo THEN memo ELSE <<>>, exc |-> None], 0)
           IN  /\ universes' = st.universes
               /\ cellobjs' = st.cells
               /\ mats' = st.mats
               /\ lattices' = st.lattices
               /\ ids' = st.ids
               /\ memo' = IF with_memo THEN st.memo ELSE memo
               /\ ret' = IF st.exc # None THEN Raised(st.exc)
                         ELSE Returned(<<od_get(st.memo, UniverseKey(u))>>)
        /\ call' = [op |-> "clone", self |-> u,
                    args |-> <<clone_mats, clone_regions, with_memo>>, n |-> call.n + 1]
        /\ UNCHANGED elem

NextClone == Clone

SpecClone == CloneInit /\ [][NextClone]_vars

CloneReturned == call.op = "clone" /\ ret.exc = None

\* the positions of the cells of universe u that are filled with universe v
FilledWith(u, v) ==
    {i \in DOMAIN universes[u].cells :
        LET fill == cellobjs[universes[u].cells[i][2]].fill
        IN  fill.type = "universe" /\ fill.ref = v}

\* the fill of the cell at position i of universe u
FillAt(u, i) == cellobjs[universes[u].cells[i][2]].fill

\* the clone returned for U has, at the positions of two cells of U filled
\* with the same V, cells filled with one object that is a clone of V
SharingPreserved(U, clone_of_U) ==
    \A V \in DOMAIN universes : \A i, j \in FilledWith(U, V) :
        /\ i \in DOMAIN universes[clone_of_U].cells
        /\ j \in DOMAIN universes[clone_of_U].cells
        /\ FillAt(clone_of_U, i).type = "universe"
        /\ FillAt(clone_of_U, i) = FillAt(clone_of_U, j)
        /\ universes[clone_of_U].cells[i][2] # universes[U].cells[i][2]
        /\ i # j => universes[clone_of_U].cells[i][2] # universes[clone_of_U].cells[j][2]
        /\ FillAt(clone_of_U, i).ref # V
        /\ universes[FillAt(clone_of_U, i).ref].name = universes[V].name

\* a clone call made with the caller's memo on a universe memo already holds
MemoHit ==
    /\ call'.op = "clone"
    /\ call'.args[3]
    /\ UniverseKey(call'.self) \in od_keys(memo)

MemoHitStep ==
    MemoHit =>
        /\ ret' = Returned(<<od_get(memo, UniverseKey(call'.self))>>)
        /\ UNCHANGED <<universes, cellobjs, mats, lattices, ids, memo>>

\* C8: when U holds two cells filled with the same universe V, clone(U)
\* returns U' whose two cloned cells are filled with one cloned object V',
\* U'.id differs from U.id and U'.name equals U.name; a clone call on an
\* object already in the shared memo returns the memoized clone and creates
\* nothing.
C8_ClonePreservesSharing ==
    /\ [](CloneReturned =>
            /\ ret.val[1] # call.self
            /\ universes[ret.val[1]].id # universes[call.self].id
            /\ universes[ret.val[1]].name = universes[call.self].name
            /\ Len(universes[ret.val[1]].cells) = Len(universes[call.self].cells)
            /\ SharingPreserved(call.self, ret.val[1]))
    /\ [][MemoHitStep]_vars

\* the root holds two cells filled with the child; its clone, made with the
\* shared memo, holds two cells filled with the one clone of the child, and
\* the second call with that memo added no universe to the five
C8_Witness ==
    /\ CloneReturned /\ call.self = RootUniverse /\ call.n = 2 /\ call.args[3]
    /\ Cardinality(FilledWith(RootUniverse, 2)) = 2
    /\ \A i \in FilledWith(RootUniverse, 2) : FillAt(ret.val[1], i).ref = 5
    /\ ret.val[1] = 4
    /\ Len(universes) = 5
    /\ UniverseKey(RootUniverse) \in od_keys(memo)

(***************************************************************************)
(* DAGMCUniverse.bounded_universe, and _determine_paths from the universe  *)
(* it returns.                                                             *)
(***************************************************************************)
MaxBounded == 2       \* bounded_universe calls made in one behaviour

\* IDManagerMixin: an ID given by the caller is recorded as used
use_id(registry, n) == [registry EXCEPT !.used_ids = @ \cup {n}]

\* DAGMCUniverse.bounding_region: the box around the mesh file's nodes
bounding_region(self) == XBox(0, GridMax)

\* lines 913-914: Cell(fill=self, cell_id=bounding_cell_id, region=...) and
\* Universe(cells=[bounding_cell]); st is [universes, cells, ids]
bounded_universe(self, bounding_cell_id, st) ==
    LET c == NewHandle(st.cells)
        u == NewHandle(st.universes)
        id == auto_id(st.ids.universe)
        bounding_cell == NewCell(bounding_cell_id, "", UniverseFill(self),
                                 bounding_region(self), Unset, Unset)
        cells1 == Alloc(st.cells, c, bounding_cell)
    IN  [universes |-> Alloc(st.universes, u,
                             add_cells(UniverseBase_init("csg", id, ""),
                                       [iterable |-> TRUE, items |-> <<c>>], cells1).obj),
         cells |-> cells1,
         ids |-> [st.ids EXCEPT !.universe = register_id(@, id),
                                !.cell = use_id(@, bounding_cell_id)],
         val |-> u]

BoundingCellIds == {1, 10000}

DagmcInit ==
    /\ \E id \in 1..MaxId, name \in UniverseNames, filename \in Filenames,
          auto_geom_ids \in BOOLEAN, auto_mat_ids \in BOOLEAN :
          /\ universes = <<DAGMCUniverse_init(filename, id, name,
                                              auto_geom_ids, auto_mat_ids)>>
          /\ ids = [universe |-> IdState({id}), cell |-> IdState({}),
                    material |-> IdState({}), lattice |-> IdState({})]
    /\ cellobjs = <<>>
    /\ mats = <<>>
    /\ lattices = <<>>
    /\ memo = <<>>
    /\ elem = <<>>
    /\ call = [op |-> "init", self |-> NoObj, args |-> <<>>, n |-> 0]
    /\ ret = Returned(<<>>)

BoundedUniverse ==
    \E d \in DagmcUniverses, bounding_cell_id \in BoundingCellIds :
        /\ Cardinality(CsgUniverses) < MaxBounded
        /\ LET st == bounded_universe(d, bounding_cell_id,
                                      [universes |-> universes, cells |-> cellobjs,
                                       ids |-> ids])
           IN  /\ universes' = st.universes
               /\ cellobjs' = st.cells
               /\ ids' = st.ids
               /\ ret' = Returned(<<st.val>>)
        /\ call' = [call EXCEPT !.op = "bounded_universe", !.self = d,
                                !.args = <<bounding_cell_id>>]
        /\ UNCHANGED <<mats, lattices, memo, elem>>

\* _determine_paths() on a universe that bounded_universe returned
DeterminePathsBounded ==
    \E u \in CsgUniverses, instances_only \in BOOLEAN :
        /\ call.n < MaxCalls
        /\ LET st == determine_paths(u, "", instances_only,
                                     [cells |-> cellobjs, mats |-> mats, exc |-> None], 0)
           IN  /\ cellobjs' = st.cells
               /\ mats' = st.mats
               /\ ret' = [exc |-> st.exc, val |-> <<>>]
        /\ call' = [op |-> "_determine_paths", self |-> u,
                    args |-> <<"", instances_only>>, n |-> call.n + 1]
        /\ UNCHANGED <<universes, lattices, ids, memo, elem>>

NextBounded == BoundedUniverse \/ DeterminePathsBounded

SpecBounded == DagmcInit /\ [][NextBounded]_vars

\* the bounding cell of a universe that bounded_universe returned
BoundingCell(u) == universes[u].cells[1][2]

\* C11: _determine_paths from the universe bounded_universe built around a
\* DAGMCUniverse completes without error, counts the bounding cell once and
\* records its path, and changes no other cell or material counter.
C11_DagmcOpaqueLeaf ==
    FirstPathsCall =>
        /\ ret.exc = None
        /\ cellobjs[BoundingCell(call.self)].num_instances = 1
        /\ ~InstancesOnly =>
               cellobjs[BoundingCell(call.self)].paths =
                   <<"u" \o ToString(universes[call.self].id) \o "->c"
                        \o ToString(cellobjs[BoundingCell(call.self)].id)>>
        /\ \A c \in DOMAIN cellobjs \ {BoundingCell(call.self)} :
               cellobjs[c].num_instances = 0
        /\ \A m \in DOMAIN mats : mats[m].num_instances = 0

(***************************************************************************)
(* clone on graphs that hold a cycle: a cell of the root filled with the   *)
(* root itself, or a cell of the child filled with the root.               *)
(***************************************************************************)
SelfFilledCell == Len(GeomCells) + 1

BackFilledCell == Len(GeomCells) + 2

\* c = Cell(); u = Universe(cells=[c]); c.fill = u
CyclicCells ==
    GeomCells \o <<NewCell(SelfFilledCell, "", UniverseFill(RootUniverse), Unset, Unset, Unset),
                   NewCell(BackFilledCell, "", UniverseFill(RootUniverse), Unset, Unset, Unset)>>

CyclicRootChoices ==
    {<<SelfFilledCell>>, <<1, SelfFilledCell>>, <<5>>, <<6, 5>>, <<3, 5>>}

CyclicChildChoices == {<<BackFilledCell>>, <<9, BackFilledCell>>, <<9>>}

CyclicInit ==
    /\ cellobjs = CyclicCells
    /\ mats = <<NewMaterial(1, "m1"), NewMaterial(2, "m2")>>
    /\ lattices = CHOOSE l \in GeomLattices : TRUE
    /\ \E root \in CyclicRootChoices, child \in CyclicChildChoices :
          universes = <<WithCells(UniverseBase_init("csg", 1, "root"), CyclicCells, root),
                        WithCells(UniverseBase_init("csg", 2, "child"), CyclicCells, child),
                        WithCells(UniverseBase_init("csg", 3, "pin"), CyclicCells, <<12>>)>>
    /\ ids = [universe |-> IdState({1, 2, 3}), cell |-> IdState(DOMAIN CyclicCells),
              material |-> IdState({1, 2}), lattice |-> IdState({1})]
    /\ memo = <<>>
    /\ elem = <<>>
    /\ call = [op |-> "init", self |-> NoObj, args |-> <<>>, n |-> 0]
    /\ ret = Returned(<<>>)

SpecCloneCyclic == CyclicInit /\ [][NextClone]_vars

\* C12: clone registers the new universe in memo before it clones any cell
\* of the source, so a clone call that reaches the source again through a
\* cycle finds the entry and returns: the call ends without running out of
\* stack, and a cell that was filled with its own universe is filled, in the
\* clone, with the clone.
C12_MemoBeforeRecursion ==
    call.op = "clone" =>
        /\ ret.exc = None
        /\ \A i \in FilledWith(call.self, call.self) :
               FillAt(ret.val[1], i).ref = ret.val[1]

(***************************************************************************)
(* _determine_paths in the instances-only mode and called again (checked   *)
(* under SpecPaths).                                                       *)
(***************************************************************************)
\* what the default mode would leave, called on the state before the step
DefaultMode ==
    determine_paths(RootUniverse, "", FALSE,
                    [cells |-> cellobjs, mats |-> mats, exc |-> None], 0)

InstancesOnlyStep ==
    (call'.op = "_determine_paths" /\ call'.n = call.n + 1 /\ call'.args[2]) =>
        /\ ret'.exc = DefaultMode.exc
        /\ \A c \in DOMAIN cellobjs :
            /\ cellobjs'[c].num_instances = DefaultMode.cells[c].num_instances
            /\ cellobjs'[c].paths = cellobjs[c].paths
        /\ \A m \in DOMAIN mats :
            /\ mats'[m].num_instances = DefaultMode.mats[m].num_instances
            /\ mats'[m].paths = mats[m].paths

\* C13: a _determine_paths call with instances_only set makes the same
\* num_instances increments on every Cell and Material as the default mode
\* makes on the same graph, and leaves every paths list as it was.
C13_InstancesOnlyFrame == [][InstancesOnlyStep]_vars

\* after a call in the default mode, a call with instances_only counted
\* cell 9 and its material twice more and left the two recorded paths
C13_Witness ==
    /\ call.op = "_determine_paths" /\ call.n = 2 /\ InstancesOnly /\ ret.exc = None
    /\ cellobjs[9].num_instances = 4
    /\ cellobjs[9].paths = <<"u1->c5->u2->c9", "u1->c6->u2->c9">>
    /\ mats[1].num_instances = 4
    /\ mats[1].paths = <<"u1->c5->u2->c9->m1", "u1->c6->u2->c9->m1">>

\* how many of the occurrences of cell c made by n calls resolve to
\* material m: a distributed-material list is read at positions 0, 1, ...
\* across the calls
ResolvedToAfter(c, m, n) ==
    LET fill == cellobjs[c].fill
        occ == n * Occurrences(RootUniverse, c)
    IN  IF fill.type = "material" THEN (IF fill.ref = m THEN occ ELSE 0)
        ELSE IF fill.type = "distribmat"
             THEN Cardinality({k \in 1..occ : k <= Len(fill.list) /\ fill.list[k] = m})
             ELSE 0

RECURSIVE MaterialOccurrencesAfter(_, _, _)
MaterialOccurrencesAfter(m, cells, n) ==
    IF cells = 0 THEN 0
    ELSE ResolvedToAfter(cells, m, n) + MaterialOccurrencesAfter(m, cells - 1, n)

\* the cells with a distributed-material list that the root reaches
DistribReached == {d \in DistribCells : Occurrences(RootUniverse, d) > 0}

SecondPathsCall == call.op = "_determine_paths" /\ call.n = 2

\* a second call, made after a first call that returned
SecondCallStep ==
    /\ FirstPathsCall /\ ret.exc = None
    /\ call'.op = "_determine_paths" /\ call'.n = 2

BothDefault == ~call.args[2] /\ ~call'.args[2]

DoubleCallStep ==
    SecondCallStep =>
        /\ DistribReached = {} =>
            /\ ret'.exc = None
            /\ \A c \in DOMAIN cellobjs :
                /\ cellobjs'[c].num_instances = 2 * cellobjs[c].num_instances
                /\ BothDefault => cellobjs'[c].paths = cellobjs[c].paths \o cellobjs[c].paths
            /\ \A m \in DOMAIN mats :
                /\ mats'[m].num_instances = 2 * mats[m].num_instances
                /\ BothDefault => mats'[m].paths = mats[m].paths \o mats[m].paths
        /\ \A d \in DistribReached :
            LET occ == cellobjs[d].num_instances
                list == cellobjs[d].fill.list
            IN  /\ 2 * occ > Len(list) => ret'.exc = "IndexError"
                /\ (ret'.exc = None /\ BothDefault) =>
                       \A j \in 1..occ :
                           list[occ + j] # NoObj =>
                               (cellobjs'[d].paths[occ + j] \o "->m"
                                    \o ToString(mats[list[occ + j]].id))
                                   \in Range(mats'[list[occ + j]].paths)

\* C14: _determine_paths never resets counters.  A second call on the same
\* root leaves, on a graph with no distributed-material fill, every Cell and
\* Material with twice the num_instances and twice the path entries of one
\* call; a cell with a distributed-material list is read, in the second
\* call, at the positions that follow those the first call read.
C14_SecondCallContinues ==
    /\ []((SecondPathsCall /\ ret.exc = None) =>
            /\ \A c \in DOMAIN cellobjs :
                   cellobjs[c].num_instances = 2 * Occurrences(RootUniverse, c)
            /\ \A m \in DOMAIN mats :
                   mats[m].num_instances = MaterialOccurrencesAfter(m, Len(cellobjs), 2))
    /\ [][DoubleCallStep]_vars

\* cell 4, in the root, has the list [None, m1]: the first call read
\* position 0 and counted no material, the second read position 1
C14_Witness ==
    /\ SecondPathsCall /\ ret.exc = None /\ ~InstancesOnly
    /\ cellobjs[4].num_instances = 2
    /\ "u1->c4->m1" \in Range(mats[1].paths)
    /\ \A c \in DOMAIN cellobjs : c # 4 => cellobjs[c].fill.ref # 1 \/ cellobjs[c].num_instances = 0

(***************************************************************************)
(* UniverseBase.add_volume_information.  A VolumeCalculation is            *)
(* [domain_type, volumes, atoms]: volumes maps domain IDs to the value     *)
(* [n, s] and its uncertainty, atoms maps them to the dict of atom counts. *)
(***************************************************************************)
MaxVolume == 2        \* volumes are drawn from 1..MaxVolume

\* the volume and atoms set from the entries whatever the domain type is
add_volume_information_any_domain(self, volume_calc) ==
    IF self.id \in DOMAIN volume_calc.volumes /\ self.id \in DOMAIN volume_calc.atoms
    THEN [obj |-> [self EXCEPT !.volume = Some(volume_calc.volumes[self.id].n),
                               !.atoms = volume_calc.atoms[self.id]],
          exc |-> None]
    ELSE [obj |-> self, exc |-> "ValueError"]

\* lines 85-92; line 88 raises KeyError, after line 87 has set the volume,
\* when atoms has no entry for the ID
add_volume_information(self, volume_calc) ==
    IF volume_calc.domain_type = "universe"
    THEN IF self.id \in DOMAIN volume_calc.volumes
         THEN LET set == [self EXCEPT !.volume = Some(volume_calc.volumes[self.id].n)]
              IN  IF self.id \in DOMAIN volume_calc.atoms
                  THEN [obj |-> [set EXCEPT !.atoms = volume_calc.atoms[self.id]],
                        exc |-> None]
                  ELSE [obj |-> set, exc |-> "KeyError"]
         ELSE [obj |-> self, exc |-> "ValueError"]
    ELSE [obj |-> self, exc |-> "ValueError"]

DomainTypes == {"universe", "cell", "material"}

AtomCounts == {<<>>, <<<<"U235", 2>>, <<"H1", 1>>>>}

\* the IDs of the two universes of the initial state
VolumeDomains == {1, 2}

\* the results a volume calculation can hold: an atoms entry for every
\* domain that has a volume, or no atoms at all
VolumeCalculations ==
    UNION {{[domain_type |-> t, volumes |-> v, atoms |-> a] :
               t \in DomainTypes,
               v \in [K -> [n : 1..MaxVolume, s : {0}]],
               a \in {[k \in K |-> n] : n \in AtomCounts} \cup {<<>>}} :
           K \in SUBSET VolumeDomains}

VolumeInit ==
    /\ universes = <<UniverseBase_init("csg", 1, "root"),
                     DAGMCUniverse_init(<<"str", "dagmc.h5m">>, 2, "mesh", FALSE, FALSE)>>
    /\ ids = [universe |-> IdState(VolumeDomains), cell |-> IdState({}),
              material |-> IdState({}), lattice |-> IdState({})]
    /\ cellobjs = <<>>
    /\ mats = <<>>
    /\ lattices = <<>>
    /\ memo = <<>>
    /\ elem = <<>>
    /\ call = [op |-> "init", self |-> NoObj, args |-> <<>>, n |-> 0]
    /\ ret = Returned(<<>>)

AddVolumeInformation ==
    \E u \in DOMAIN universes, volume_calc \in VolumeCalculations :
        LET r == add_volume_information(universes[u], volume_calc)
        IN  /\ universes' = [universes EXCEPT ![u] = r.obj]
            /\ call' = [op |-> "add_volume_information", self |-> u,
                        args |-> <<volume_calc>>, n |-> 0]
            /\ ret' = [exc |-> r.exc, val |-> <<>>]
            /\ UNCHANGED <<cellobjs, mats, lattices, ids, memo, elem>>

NextVolume == AddVolumeInformation

SpecVolume == VolumeInit /\ [][NextVolume]_vars

AddVolumeStep ==
    call'.op = "add_volume_information" =>
        LET u == call'.self
            volume_calc == call'.args[1]
            id == universes[u].id
        IN  /\ (volume_calc.domain_type # "universe" \/ id \notin DOMAIN volume_calc.volumes)
                   => /\ ret'.exc = "ValueError"
                      /\ universes'[u].volume = universes[u].volume
                      /\ universes'[u].atoms = universes[u].atoms
            /\ ret'.exc = None
                   => /\ volume_calc.domain_type = "universe"
                      /\ universes'[u].volume = Some(volume_calc.volumes[id].n)
                      /\ universes'[u].atoms = volume_calc.atoms[id]
            /\ (/\ volume_calc.domain_type = "universe"
                /\ id \in DOMAIN volume_calc.volumes
                /\ id \in DOMAIN volume_calc.atoms) => ret'.exc = None

\* C15: add_volume_information raises ValueError when the calculation's
\* domain type is not 'universe' or its volumes have no entry for the
\* universe's ID, and then leaves volume and atoms as they were; when it
\* returns, volume and atoms are those of the entries under the ID.
C15_AddVolumeInformation == [][AddVolumeStep]_vars

\* a call with a calculation over cells failed on a universe that an
\* earlier call had given a volume and atoms, and left both
C15_Witness ==
    /\ call.op = "add_volume_information" /\ ret.exc = "ValueError"
    /\ call.args[1].domain_type = "cell"
    /\ universes[call.self].id \in DOMAIN call.args[1].volumes
    /\ universes[call.self].volume = Some(MaxVolume)
    /\ universes[call.self].atoms = <<<<"U235", 2>>, <<"H1", 1>>>>

(***************************************************************************)
(* find, _determine_paths and clone on the acyclic graphs of CloneInit,    *)
(* in any order.                                                           *)
(***************************************************************************)
FindFromRoot ==
    \E p \in PointInputs :
        /\ call' = [call EXCEPT !.op = "find", !.self = RootUniverse, !.args = <<p>>]
        /\ ret' = find(RootUniverse, p, 0)
        /\ UNCHANGED <<universes, cellobjs, mats, lattices, ids, memo, elem>>

\* clone(clone_materials, memo=memo) on the root
CloneRoot ==
    \E clone_mats \in BOOLEAN, with_memo \in BOOLEAN :
        /\ call.n < MaxClones
        /\ LET st == clone(RootUniverse, clone_mats, TRUE,
                           [universes |-> universes, cells |-> cellobjs, mats |-> mats,
                            lattices |-> lattices, ids |-> ids,
                            memo |-> IF with_memo THEN memo ELSE <<>>, exc |-> None], 0)
           IN  /\ universes' = st.universes
               /\ cellobjs' = st.cells
               /\ mats' = st.mats
               /\ lattices' = st.lattices
               /\ ids' = st.ids
               /\ memo' = IF with_memo THEN st.memo ELSE memo
               /\ ret' = IF st.exc # None THEN Raised(st.exc)
                         ELSE Returned(<<od_get(st.memo, UniverseKey(RootUniverse))>>)
        /\ call' = [op |-> "clone", self |-> RootUniverse,
                    args |-> <<clone_mats, TRUE, with_memo>>, n |-> call.n + 1]
        /\ UNCHANGED elem

NextTraversals == FindFromRoot \/ DeterminePaths \/ CloneRoot

SpecTraversals == CloneInit /\ [][NextTraversals]_vars

\* the universes that fill the cells of universe u, directly or in a slot
\* of a lattice
FillingUniverses(u) ==
    UNION {LET fill == FillAt(u, i)
           IN  IF fill.type = "universe" THEN {fill.ref}
               ELSE IF fill.type = "lattice"
                    THEN {get_universe(fill.ref, idx) : idx \in Range(natural_indices(fill.ref))}
                    ELSE {} : i \in DOMAIN universes[u].cells}

\* the number of universes on the longest chain of fills that starts at u
RECURSIVE Height(_)
Height(u) ==
    IF FillingUniverses(u) = {} THEN 1
    ELSE 1 + Max({Height(v) : v \in FillingUniverses(u)})

\* the universes reached from u, u included
RECURSIVE ReachedFrom(_)
ReachedFrom(u) == {u} \cup UNION {ReachedFrom(v) : v \in FillingUniverses(u)}

\* the universes find went through, in the order of its result
UniversesOf(result) ==
    LET at == {i \in DOMAIN result : result[i].kind = "universe"}
    IN  [k \in 1..Cardinality(at) |->
            result[CHOOSE i \in at : Cardinality({j \in at : j <= i}) = k].obj]

FindDescends ==
    FindCalled =>
        LET us == UniversesOf(ret.val)
        IN  /\ Len(us) <= Height(call.self)
            /\ \A k \in 1..(Len(us) - 1) :
                   /\ us[k + 1] \in FillingUniverses(us[k])
                   /\ Height(us[k + 1]) < Height(us[k])

PathsCallsBounded ==
    call'.op = "_determine_paths" /\ call'.n = call.n + 1 =>
        \A c \in DOMAIN cellobjs :
            cellobjs'[c].num_instances - cellobjs[c].num_instances
                <= Occurrences(RootUniverse, c)

CloneCallsBounded ==
    call'.op = "clone" /\ call'.n = call.n + 1 =>
        /\ Len(universes') - Len(universes) <= Cardinality(ReachedFrom(call'.self))
        /\ Len(cellobjs') - Len(cellobjs)
               <= Cardinality(UNION {Range(od_values(universes[v].cells)) :
                                        v \in ReachedFrom(call'.self)})

\* C16: on a finite acyclic graph find, _determine_paths and clone end
\* without exhausting the stack; find goes from a universe to one strictly
\* deeper in the graph, at most as many times as the graph is deep;
\* _determine_paths passes a cell at most once per path from the root to
\* it, and clone builds at most one universe and one cell per object reached.
C16_TraversalsTerminate ==
    /\ [](/\ ret.exc # "RecursionError"
          /\ FindDescends)
    /\ [][PathsCallsBounded /\ CloneCallsBounded]_vars

\* find went from the root into the child and stopped at its cell 9, after
\* the root had been cloned
C16_Witness ==
    /\ FindCalled /\ ret.exc = None
    /\ UniversesOf(ret.val) = <<RootUniverse, 2>>
    /\ ret.val[Len(ret.val)] = CellEntry(9)
    /\ Len(universes) > 3
    /\ cellobjs[9].num_instances > 0

(***************************************************************************)
(* The path lists against the counters (checked under SpecPaths).          *)
(***************************************************************************)
EndsWith(s, suffix) ==
    /\ Len(s) >= Len(suffix)
    /\ SubSeq(s, Len(s) - Len(suffix) + 1, Len(s)) = suffix

PathsMatchCounters ==
    /\ \A c \in DOMAIN cellobjs :
        /\ Len(cellobjs[c].paths) = cellobjs[c].num_instances
        /\ \A i \in DOMAIN cellobjs[c].paths :
               EndsWith(cellobjs[c].paths[i], "->c" \o ToString(cellobjs[c].id))
    /\ \A m \in DOMAIN mats :
        /\ Len(mats[m].paths) = mats[m].num_instances
        /\ \A i \in DOMAIN mats[m].paths :
               EndsWith(mats[m].paths[i], "->m" \o ToString(mats[m].id))

DefaultCallStep ==
    (PathsMatchCounters /\ call'.op = "_determine_paths" /\ call'.n = call.n + 1
        /\ ~call'.args[2]) => PathsMatchCounters'

\* C17: from zero counters and empty path lists, as long as every
\* _determine_paths call is made in the default mode, every Cell and every
\* Material has as many paths as instances, every path of a cell ends in
\* '->c<its id>' and every path of a material in '->m<its id>'.
C17_PathsMatchCounters ==
    /\ [](call.n = 0 => PathsMatchCounters)
    /\ [][DefaultCallStep]_vars

\* two calls in the default mode left four paths on cell 9 and four on its
\* material
C17_Witness ==
    /\ SecondPathsCall /\ ret.exc = None /\ ~InstancesOnly /\ PathsMatchCounters
    /\ cellobjs[9].num_instances = 4
    /\ cellobjs[9].paths[4] = "u1->c6->u2->c9"
    /\ mats[1].paths[4] = "u1->c6->u2->c9->m1"

====
